---------------------------- MODULE Spec2Model ----------------------------
(***************************************************************************)
(* Client-side synchronization layer of notemind's frontend:               *)
(*   - useNotes (useInfiniteQuery) + Sidebar's IntersectionObserver:       *)
(*     the cursor-paginated list of notes;                                 *)
(*   - useSearch (useDebounce + useQuery) + Sidebar's displayNotes:        *)
(*     the debounced search overlay;                                       *)
(*   - ChatSidebar.handleSend: the streamed chat response.                 *)
(***************************************************************************)
EXTENDS Integers, Sequences, FiniteSets, TLC

VARIABLES
    \* ---- server (GET /notes) ----
    serverCount,        \* number of notes on the server; ids serverCount..1, newest first
    \* ---- useNotes: the infinite query ['notes', {searchQuery: undefined}] ----
    pages,              \* data.pages: sequence of {notes, nextPage}
    fetchStatus,        \* "idle" | "fetching"
    fetchDirection,     \* "none" (initial load) | "forward" (fetchNextPage)
    failureCount,       \* consecutive failed attempts of the current fetch
    retryWait,          \* TRUE between a failed attempt and its automatic retry
    isError,            \* the query's status is 'error'
    network,            \* HTTP requests in flight: {[id, offset, by]}
    current,            \* id of the request the query is waiting for (0: none)
    reqSeq,             \* number of HTTP requests issued so far
    suppressed,         \* an intersecting callback fetched nothing since the last change
    \* ---- Sidebar's IntersectionObserver on the last rendered note ----
    visible,            \* the last rendered note intersects the viewport
    notify,             \* the observer has a notification to deliver
    rose,               \* the last note went from not visible to visible, not yet reported
    attached,           \* the notes the connected IntersectionObservers observe
    \* ---- useSearch / Sidebar ----
    query,              \* raw search string (sequence of characters)
    debouncedQuery,     \* settled search string
    timer,              \* ms until the debounce timer fires, NoTimer if none
    quiet,              \* ms since the last edit of query (capped)
    typed,              \* raw values of the current burst of edits
    settledAt,          \* which edit of the burst gave debouncedQuery (0: an earlier one)
    cache,              \* query cache ['search', q] -> data
    searchNet,          \* search requests in flight: set of query strings
    late,               \* the last search response was for a superseded query
    orphan,             \* a search response has arrived after the teardown
    doubled,            \* a search was requested for a value already being fetched
    isSearchVisible,    \* Sidebar's overlay flag
    mounted,            \* the Sidebar (owner of useSearch) is mounted
    \* ---- ChatSidebar ----
    messages,           \* the transcript: sequence of {role, content}
    input,              \* the text area's value (sequence of characters)
    isLoading_chat,     \* ChatSidebar's isLoading flag
    pc,                 \* where handleSend is: "idle" | "fetch" | "errorText" | "reading"
    body,               \* messages in the POST /chat body of the turn under way
    stream,             \* the whole response body of the turn under way
    rest,               \* the part of it not yet read
    emitted,            \* contents of the frames handed to setMessages so far this turn
    fault,              \* a frame's updater ran on an empty transcript
    turns               \* number of turns started

notesVars  == <<serverCount, pages, fetchStatus, fetchDirection, failureCount,
                retryWait, isError, network, current, reqSeq, suppressed,
                visible, notify, rose, attached>>
pagingVars == <<serverCount, pages, fetchStatus, fetchDirection, failureCount,
                retryWait, isError, network, current, reqSeq, suppressed>>
searchVars == <<query, debouncedQuery, timer, quiet, typed, settledAt, cache, searchNet,
                late, orphan, doubled, isSearchVisible, mounted>>
chatVars   == <<messages, input, isLoading_chat, pc, body, stream, rest, emitted,
                fault, turns>>
vars == <<notesVars, searchVars, chatVars>>

-----------------------------------------------------------------------------
(* Bounds of the model *)
MaxNotes    == 42      \* most notes the server ever holds
MaxRequests == 7       \* most HTTP page requests issued in one behaviour

(* Program constants *)
PAGE_SIZE        == 20
initialPageParam == 0
RETRY            == 3   \* QueryClient default: a failed query is retried 3 times
NoPage           == -1  \* getNextPageParam's `undefined`

Min(a, b) == IF a < b THEN a ELSE b
Max(a, b) == IF a > b THEN a ELSE b
Last(s)   == s[Len(s)]

RECURSIVE FlatMap(_)
FlatMap(ps) ==
    IF ps = <<>> THEN <<>> ELSE Head(ps).notes \o FlatMap(Tail(ps))

-----------------------------------------------------------------------------
(* GET /notes?limit=&offset= : the server's list is newest first, so the    *)
(* note at position i (1-based) has id serverCount - i + 1.                 *)
getAll(offset, limit) ==
    [i \in 1 .. Max(0, Min(limit, serverCount - offset)) |->
        serverCount - (offset + i) + 1]

(* queryFn: one page and the offset that follows it *)
queryFn_pageIndex(pageParam) ==
    [notes |-> getAll(pageParam, PAGE_SIZE), nextPage |-> pageParam + 1]

queryFn(pageParam) ==
    [notes |-> getAll(pageParam, PAGE_SIZE), nextPage |-> pageParam + PAGE_SIZE]

getNextPageParam_untilEmpty(lastPage) ==
    IF Len(lastPage.notes) > 0 THEN lastPage.nextPage ELSE NoPage

getNextPageParam(lastPage) ==
    IF Len(lastPage.notes) = PAGE_SIZE THEN lastPage.nextPage ELSE NoPage

(* a variant of the second rule that counts the pages before the last *)
getNextPageParam_beforeLast(lastPage, allPages) ==
    IF Len(lastPage) < PAGE_SIZE THEN NoPage
    ELSE (Len(allPages) - 1) * PAGE_SIZE

(* hooks/useNotes.ts, whose pages are the arrays of notes:                  *)
(*   if (lastPage.length < PAGE_SIZE) return undefined;                     *)
(*   return allPages.length * PAGE_SIZE;                                    *)
getNextPageParam_allPages(lastPage, allPages) ==
    IF Len(lastPage) < PAGE_SIZE THEN NoPage
    ELSE Len(allPages) * PAGE_SIZE

hasNextPage ==
    pages # <<>> /\ getNextPageParam(Last(pages)) # NoPage

isFetchingNextPage ==
    fetchStatus = "fetching" /\ fetchDirection = "forward"

isLoading ==
    fetchStatus = "fetching" /\ pages = <<>>

(* the flattened list useNotes returns *)
notes == FlatMap(pages)

-----------------------------------------------------------------------------
(* useSearch and Sidebar's display rule *)
DEBOUNCE_MS == 300
TickMs      == 50      \* granularity of the clock
MaxBurst    == 3       \* most edits in one burst (before the timer fires)
NoTimer     == -1
NoData      == [for |-> <<"undefined">>, notes |-> <<>>]

Empty   == <<>>
Queries == {Empty, <<"a">>, <<"a", "p">>, <<"a", "p", "p">>}

(* GET /search?query=q : the matching notes; the answer names its query *)
search(q) ==
    [for |-> q, notes |-> getAll(0, Len(q))]

(* useQuery({queryKey: ['search', debouncedQuery], enabled: length > 0}) *)
enabled == Len(debouncedQuery) > 0

queryKey_raw == query

queryKey == debouncedQuery

results == cache[queryKey]

isSearchLoading ==
    enabled /\ results = NoData /\ queryKey \in searchNet

(* Sidebar: const displayNotes = isSearchVisible && query.length > 0 ? results ?? [] : notes *)
displayNotes_settled ==
    IF isSearchVisible /\ Len(debouncedQuery) > 0
    THEN [from |-> "search", list |-> (IF results = NoData THEN <<>> ELSE results.notes)]
    ELSE [from |-> "notes", list |-> notes]

displayNotes ==
    IF isSearchVisible /\ Len(query) > 0
    THEN [from |-> "search", list |-> (IF results = NoData THEN <<>> ELSE results.notes)]
    ELSE [from |-> "notes", list |-> notes]

(* the list is rendered (not the spinner) and has a last element for the ref *)
lastElementRendered ==
    /\ ~(isLoading \/ (isSearchVisible /\ isSearchLoading))
    /\ displayNotes.list # <<>>

-----------------------------------------------------------------------------
(* The infinite query: fetchNextPage, responses, automatic retries *)

(* Sidebar's IntersectionObserver callback:                                 *)
(*   if (firstEntry.isIntersecting && hasNextPage && !isFetchingNextPage)   *)
shouldFetch_unguarded(isIntersecting) ==
    isIntersecting /\ hasNextPage

shouldFetch(isIntersecting) ==
    isIntersecting /\ hasNextPage /\ ~isFetchingNextPage

issue(offset, by) ==
    /\ reqSeq < MaxRequests
    /\ reqSeq' = reqSeq + 1
    /\ current' = reqSeq + 1
    /\ network' = network \cup {[id |-> reqSeq + 1, offset |-> offset, by |-> by]}

(* fetchNextPage(): asks for the page after the last one; a fetch already   *)
(* running is cancelled (its answer is then ignored) and replaced.          *)
fetchNextPage ==
    LET pageParam == IF pages = <<>> THEN initialPageParam
                     ELSE getNextPageParam(Last(pages))
    IN  IF pageParam = NoPage
        THEN UNCHANGED <<serverCount, pages, fetchStatus, fetchDirection,
                         failureCount, retryWait, isError, network, current, reqSeq>>
        ELSE /\ issue(pageParam, "fetchNextPage")
             /\ fetchStatus' = "fetching"
             /\ fetchDirection' = "forward"
             /\ failureCount' = 0
             /\ retryWait' = FALSE
             /\ UNCHANGED <<serverCount, pages, isError>>

(* the effect's dependencies [hasNextPage, isFetchingNextPage,              *)
(* fetchNextPage, displayNotes] differ after the step: the effect           *)
(* disconnects the observer, makes a new one and observes the last note,    *)
(* and a new observer always reports its target's state once                *)
depsChanged ==
    \/ hasNextPage' # hasNextPage
    \/ isFetchingNextPage' # isFetchingNextPage
    \/ displayNotes' # displayNotes

(* the element lastElementRef points at: the last note of the list shown,   *)
(* none when the list is not rendered or empty                              *)
target ==
    IF mounted /\ lastElementRendered
    THEN {displayNotes.list[Len(displayNotes.list)]}
    ELSE {}

(* a variant whose effect leaves the previous observer connected *)
disconnect_skipped == attached

(* observerRef.current.disconnect(): what stays observed afterwards *)
disconnect == {}

(* Sidebar's effect after a render: when a dependency has changed (or the   *)
(* Sidebar goes away) the cleanup and the effect's first lines disconnect   *)
(* the observer; a new one is made and observes lastElementRef.current      *)
useEffect ==
    attached' = IF depsChanged \/ mounted' # mounted
                THEN disconnect \cup
                     (IF mounted' /\ lastElementRendered'
                      THEN {displayNotes'.list[Len(displayNotes'.list)]}
                      ELSE {})
                ELSE attached

(* a render caused by the search hook: the effect runs as above; a new      *)
(* last note is in the viewport or not, and the new observer reports it     *)
rerender ==
    /\ useEffect
    /\ IF displayNotes'.list # displayNotes.list
       THEN \E v \in BOOLEAN : visible' = v /\ rose' = v
       ELSE UNCHANGED <<visible, rose>>
    /\ notify' = (notify \/ depsChanged)

(* the last note scrolls into or out of the viewport (rootMargin included) *)
Scroll ==
    /\ mounted
    /\ lastElementRendered
    /\ visible' = ~visible
    /\ rose' = visible'
    /\ notify' = TRUE
    /\ UNCHANGED <<pagingVars, attached>>
    /\ UNCHANGED <<searchVars, chatVars>>

(* the observer delivers its notification: entries[0].isIntersecting is     *)
(* the last note's state                                                    *)
IntersectionCallback ==
    /\ mounted
    /\ lastElementRendered
    /\ notify
    /\ IF shouldFetch(visible)
       THEN /\ fetchNextPage
            /\ suppressed' = FALSE
       ELSE /\ suppressed' = (suppressed \/ visible)
            /\ UNCHANGED <<serverCount, pages, fetchStatus, fetchDirection,
                           failureCount, retryWait, isError, network, current, reqSeq>>
    /\ rose' = FALSE
    /\ UNCHANGED visible
    /\ UNCHANGED <<searchVars, chatVars>>
    /\ notify' = depsChanged
    /\ useEffect

(* a fetch without a direction (the first load, a refetch after an          *)
(* invalidation) fetches anew, from the first page on, as many pages as     *)
(* the query holds, stopping where getNextPageParam gives none              *)
RECURSIVE refetch(_, _)
refetch(acc, n) ==
    IF n = 0 THEN acc
    ELSE LET pageParam == IF acc = <<>> THEN initialPageParam
                          ELSE getNextPageParam(Last(acc))
         IN  IF pageParam = NoPage THEN acc
             ELSE refetch(Append(acc, queryFn(pageParam)), n - 1)

(* a variant in which the answer's page takes the place of the pages held *)
merge_single(r) == <<queryFn(r.offset)>>

(* data.pages after a successful answer: fetchNextPage adds its page to     *)
(* the pages held, a fetch without a direction replaces them                *)
merge(r) ==
    IF fetchDirection = "forward"
    THEN Append(pages, queryFn(r.offset))
    ELSE refetch(<<>>, Max(1, Len(pages)))

ResponseOk ==
    /\ \E r \in network :
          /\ network' = network \ {r}
          /\ IF r.id = current
             THEN /\ pages' = merge(r)
                  /\ fetchStatus' = "idle"
                  /\ failureCount' = 0
                  /\ isError' = FALSE
                  /\ current' = 0
                  /\ UNCHANGED <<fetchDirection, retryWait>>
             ELSE UNCHANGED <<pages, fetchStatus, fetchDirection, failureCount,
                              retryWait, isError, current>>
    /\ suppressed' = FALSE
    /\ IF notes' # notes
       THEN \E v \in BOOLEAN : visible' = v /\ rose' = v
       ELSE UNCHANGED <<visible, rose>>
    /\ UNCHANGED <<serverCount, reqSeq>>
    /\ UNCHANGED <<searchVars, chatVars>>
    /\ notify' = (notify \/ depsChanged)
    /\ useEffect

(* a failed attempt is retried while fewer than RETRY retries were made *)
shouldRetry_always == TRUE

shouldRetry == failureCount < RETRY

(* the data a fetch that failed for good leaves in the query *)
dataAfterError_dropped == <<>>

dataAfterError == pages

(* a failed attempt: retried after a pause while failureCount < RETRY,      *)
(* else the query goes to status 'error' with its data untouched            *)
ResponseFail ==
    /\ \E r \in network :
          /\ network' = network \ {r}
          /\ IF r.id = current
             THEN /\ failureCount' = failureCount + 1
                  /\ current' = 0
                  /\ IF shouldRetry
                     THEN /\ retryWait' = TRUE
                          /\ UNCHANGED <<pages, fetchStatus, isError>>
                     ELSE /\ fetchStatus' = "idle"
                          /\ isError' = TRUE
                          /\ pages' = dataAfterError
                          /\ UNCHANGED retryWait
                  /\ UNCHANGED fetchDirection
             ELSE UNCHANGED <<pages, fetchStatus, fetchDirection, failureCount,
                              retryWait, isError, current>>
    /\ suppressed' = FALSE
    /\ UNCHANGED <<visible, rose>>
    /\ UNCHANGED <<serverCount, reqSeq>>
    /\ UNCHANGED <<searchVars, chatVars>>
    /\ notify' = (notify \/ depsChanged)
    /\ useEffect

(* a variant whose retry asks for the page after the one that failed *)
retryOffset_advanced ==
    IF fetchDirection = "forward" THEN getNextPageParam(Last(pages)) + PAGE_SIZE
    ELSE initialPageParam + PAGE_SIZE

(* the retry pause is over: the same page is asked for again *)
retryOffset ==
    IF fetchDirection = "forward" THEN getNextPageParam(Last(pages))
    ELSE initialPageParam

RetryTimer ==
    /\ retryWait
    /\ fetchStatus = "fetching"
    /\ issue(retryOffset, "retry")
    /\ retryWait' = FALSE
    /\ suppressed' = FALSE
    /\ UNCHANGED <<serverCount, pages, fetchStatus, fetchDirection, failureCount, isError>>
    /\ UNCHANGED <<visible, notify, rose>>
    /\ UNCHANGED <<searchVars, chatVars>>
    /\ useEffect

(* createNote: POST /notes succeeds, onSuccess invalidates ['notes'] and    *)
(* the active query is fetched anew (a fetch under way is cancelled)        *)
createNote ==
    /\ serverCount < MaxNotes
    /\ serverCount' = serverCount + 1
    /\ issue(initialPageParam, "invalidateQueries")
    /\ fetchStatus' = "fetching"
    /\ fetchDirection' = "none"
    /\ failureCount' = 0
    /\ retryWait' = FALSE
    /\ suppressed' = FALSE
    /\ UNCHANGED <<pages, isError, visible, rose>>
    /\ UNCHANGED <<searchVars, chatVars>>
    /\ notify' = (notify \/ depsChanged)
    /\ useEffect

(* another client adds a note: every note moves one place down the list *)
ServerInsert ==
    /\ serverCount < MaxNotes
    /\ serverCount' = serverCount + 1
    /\ UNCHANGED <<pages, fetchStatus, fetchDirection, failureCount, retryWait,
                   isError, network, current, reqSeq, suppressed, visible, notify, rose,
                   attached>>
    /\ UNCHANGED <<searchVars, chatVars>>

-----------------------------------------------------------------------------
(* useSearch: the debouncer and the search query *)

(* the cache entry a response is written to: the one of the query that       *)
(* issued the request                                                       *)
commitKey_current(q) == queryKey

commitKey(q) == q

(* a variant that fetches a key again while it is being fetched *)
deduped_never(q) == FALSE

(* the query of key q has a fetch under way: an observer that comes to it   *)
(* joins that fetch                                                         *)
deduped(q) == q \in searchNet

(* after a render in which the observer's key has changed: a key that is    *)
(* enabled and not already being fetched is fetched (cached data is stale   *)
(* at once: staleTime is 0)                                                 *)
observe ==
    IF queryKey' # queryKey /\ enabled' /\ ~deduped(queryKey')
    THEN /\ searchNet' = searchNet \cup {queryKey'}
         /\ doubled' = (doubled \/ queryKey' \in searchNet)
    ELSE UNCHANGED <<searchNet, doubled>>

(* a variant that makes every value wait for the interval *)
settlesAtOnce_never(value) == FALSE

(* the value that is emitted with no interval: the empty one *)
settlesAtOnce(value) == value = Empty

(* useDebounce(query, 300) on a change of its value: restart the interval;  *)
(* an empty value settles at once                                           *)
debounce(value) ==
    IF settlesAtOnce(value)
    THEN /\ debouncedQuery' = Empty
         /\ timer' = NoTimer
         /\ settledAt' = IF debouncedQuery # Empty THEN Len(typed')
                         ELSE IF quiet = DEBOUNCE_MS THEN 0 ELSE settledAt
    ELSE /\ timer' = DEBOUNCE_MS
         /\ settledAt' = IF quiet = DEBOUNCE_MS THEN 0 ELSE settledAt
         /\ UNCHANGED debouncedQuery

(* handleSearch(value): setQuery(value) *)
handleSearch(value) ==
    IF value = query
    THEN UNCHANGED <<query, debouncedQuery, timer, quiet, typed, settledAt, searchNet, doubled>>
    ELSE /\ query' = value
         /\ quiet' = 0
         /\ typed' = IF quiet = DEBOUNCE_MS THEN <<value>> ELSE Append(typed, value)
         /\ debounce(value)
         /\ observe

(* the search input's onChange *)
Edit ==
    /\ mounted
    /\ isSearchVisible
    /\ quiet = DEBOUNCE_MS \/ Len(typed) < MaxBurst
    /\ \E value \in Queries \ {query} : handleSearch(value)
    /\ UNCHANGED <<cache, late, orphan, isSearchVisible, mounted>>
    /\ UNCHANGED <<pagingVars, chatVars>>
    /\ rerender

toggleSearch ==
    /\ mounted
    /\ quiet = DEBOUNCE_MS \/ Len(typed) < MaxBurst
    /\ isSearchVisible' = ~isSearchVisible
    /\ IF ~isSearchVisible
       THEN handleSearch(Empty)
       ELSE UNCHANGED <<query, debouncedQuery, timer, quiet, typed, settledAt, searchNet, doubled>>
    /\ UNCHANGED <<cache, late, orphan, mounted>>
    /\ UNCHANGED <<pagingVars, chatVars>>
    /\ rerender

(* time passes; a timer that is due fires before more time passes *)
Tick ==
    /\ timer # 0
    /\ timer > 0 \/ quiet < DEBOUNCE_MS
    /\ timer' = IF timer = NoTimer THEN NoTimer ELSE Max(0, timer - TickMs)
    /\ quiet' = Min(DEBOUNCE_MS, quiet + TickMs)
    /\ UNCHANGED <<query, debouncedQuery, typed, settledAt, cache, searchNet, doubled,
                   late, orphan, isSearchVisible, mounted>>
    /\ UNCHANGED <<notesVars, chatVars>>

(* the debounce interval has elapsed: setDebouncedValue(value) *)
TimerFires ==
    /\ timer = 0
    /\ debouncedQuery' = query
    /\ timer' = NoTimer
    /\ settledAt' = Len(typed)
    /\ UNCHANGED <<query, quiet, typed, cache, late, orphan, isSearchVisible, mounted>>
    /\ observe
    /\ UNCHANGED <<pagingVars, chatVars>>
    /\ rerender

SearchResponse ==
    /\ \E q \in searchNet :
          /\ searchNet' = searchNet \ {q}
          /\ cache' = [cache EXCEPT ![commitKey(q)] = search(q)]
          /\ late' = (q # queryKey)
          /\ orphan' = (orphan \/ ~mounted)
    /\ UNCHANGED <<query, debouncedQuery, timer, quiet, typed, settledAt,
                   doubled, isSearchVisible, mounted>>
    /\ UNCHANGED <<pagingVars, chatVars>>
    /\ rerender

(* the search request fails for good: the entry keeps what it had *)
SearchFails ==
    /\ \E q \in searchNet : searchNet' = searchNet \ {q}
    /\ UNCHANGED <<query, debouncedQuery, timer, quiet, typed, settledAt, cache,
                   late, orphan, doubled, isSearchVisible, mounted>>
    /\ UNCHANGED <<notesVars, chatVars>>

(* a variant whose teardown leaves the timer running *)
clearTimeout_skipped == UNCHANGED timer

(* the debounce's cancellation: the pending timer is dropped *)
clearTimeout == timer' = NoTimer

(* the Sidebar is torn down: the debounce effect's cleanup clears the timer *)
Unmount ==
    /\ mounted
    /\ mounted' = FALSE
    /\ clearTimeout
    /\ UNCHANGED <<query, debouncedQuery, quiet, typed, settledAt, cache, searchNet, doubled,
                   late, orphan, isSearchVisible>>
    /\ UNCHANGED <<pagingVars, chatVars>>
    /\ rerender

-----------------------------------------------------------------------------
(* ChatSidebar.handleSend: the streamed answer of POST /chat *)
MaxTurns == 2          \* most turns started in one behaviour

NewLine    == "\n"
Whitespace == {" ", "\t", "\r", NewLine}
DataPrefix == <<"d", "a", "t", "a", ":", " ">>
DoneData   == <<"[", "D", "O", "N", "E", "]">>
JsonOpen   == <<"{", "\"", "c", "o", "n", "t", "e", "n", "t", "\"", ":", "\"">>
JsonClose  == <<"\"", "}">>
ErrorText  == <<"Sorry, there was an error processing your request.">>

(* value.split('\n') *)
RECURSIVE split(_)
split(value) ==
    IF \A i \in 1 .. Len(value) : value[i] # NewLine
    THEN <<value>>
    ELSE LET n == CHOOSE i \in 1 .. Len(value) :
                    /\ value[i] = NewLine
                    /\ \A j \in 1 .. i - 1 : value[j] # NewLine
         IN  <<SubSeq(value, 1, n - 1)>> \o split(SubSeq(value, n + 1, Len(value)))

(* line.startsWith('data: ') *)
startsWith(line, prefix) ==
    Len(line) >= Len(prefix) /\ SubSeq(line, 1, Len(prefix)) = prefix

(* line.slice(6) *)
slice(line, n) == SubSeq(line, n + 1, Len(line))

(* String.prototype.trim *)
RECURSIVE trim(_)
trim(t) ==
    IF t = <<>> THEN t
    ELSE IF Head(t) \in Whitespace THEN trim(Tail(t))
    ELSE IF t[Len(t)] \in Whitespace THEN trim(SubSeq(t, 1, Len(t) - 1))
    ELSE t

(* JSON.parse(data) followed by 'content' in parsed: the answer's frames are *)
(* objects {"content":"<text>"}; anything else gives no content (it does   *)
(* not parse, or parses to a value without that key)                        *)
hasContent(data) ==
    /\ Len(data) >= Len(JsonOpen) + Len(JsonClose)
    /\ startsWith(data, JsonOpen)
    /\ SubSeq(data, Len(data) - Len(JsonClose) + 1, Len(data)) = JsonClose
    /\ \A i \in Len(JsonOpen) + 1 .. Len(data) - Len(JsonClose) :
          data[i] \notin {"\"", "\\", NewLine}

content(data) ==
    SubSeq(data, Len(JsonOpen) + 1, Len(data) - Len(JsonClose))

(* the frames one line gives: none, or one content *)
lineFrames(line) ==
    IF ~startsWith(line, DataPrefix) THEN <<>>
    ELSE LET data == trim(slice(line, Len(DataPrefix)))
         IN  IF data = DoneData THEN <<>>
             ELSE IF hasContent(data) THEN <<content(data)>>
             ELSE <<>>

(* a variant in which a line that fails to parse ends the chunk's handling *)
RECURSIVE linesFrames_stopAtBad(_)
linesFrames_stopAtBad(lines) ==
    IF lines = <<>> THEN <<>>
    ELSE LET line == Head(lines)
             data == trim(slice(line, Len(DataPrefix)))
         IN  IF startsWith(line, DataPrefix) /\ data # DoneData /\ ~hasContent(data)
             THEN <<>>
             ELSE lineFrames(line) \o linesFrames_stopAtBad(Tail(lines))

RECURSIVE linesFrames(_)
linesFrames(lines) ==
    IF lines = <<>> THEN <<>>
    ELSE lineFrames(Head(lines)) \o linesFrames(Tail(lines))

(* the frames of one chunk as the read loop handles it: the chunk is split  *)
(* into lines by itself *)
chunkFrames(value) == linesFrames(split(value))

(* a variant that adds the frame's content to the text already there *)
applyFrame_concat(prev, text) ==
    IF prev = <<>> THEN prev
    ELSE IF prev[Len(prev)].role = "assistant"
    THEN [prev EXCEPT ![Len(prev)] =
             [role |-> "assistant", content |-> prev[Len(prev)].content \o text]]
    ELSE prev

(* a variant that writes into the last message whatever its role *)
applyFrame_anyRole(prev, text) ==
    IF prev = <<>> THEN prev
    ELSE [prev EXCEPT ![Len(prev)] = [role |-> "assistant", content |-> text]]

(* setMessages(prev => ...) of a content frame: the last message, if it is  *)
(* the assistant's, gets the frame's content                                *)
applyFrame(prev, text) ==
    IF prev = <<>> THEN prev
    ELSE IF prev[Len(prev)].role = "assistant"
    THEN [prev EXCEPT ![Len(prev)] = [role |-> "assistant", content |-> text]]
    ELSE prev

RECURSIVE applyFrames(_, _)
applyFrames(prev, frames) ==
    IF frames = <<>> THEN prev
    ELSE applyFrames(applyFrame(prev, Head(frames)), Tail(frames))

(* what the server may stream *)
Line(data)    == DataPrefix \o data \o <<NewLine>>
Payload(text) == JsonOpen \o text \o JsonClose
Hel           == <<"H", "e", "l">>
Hello         == <<"H", "e", "l", "l", "o">>
Streams ==
    { Line(Payload(Hel)) \o Line(Payload(Hello)) \o Line(DoneData),
      Line(Payload(Hel)) \o Line(<<"{", "x">>) \o Line(Payload(Hello)),
      Line(DoneData) \o Line(Payload(Hel)) }

(* chunkFrames of every chunk the reader can hand over: the n characters   *)
(* that follow the first i of stream s                                      *)
readFrames ==
    [s \in Streams |->
        [i \in 0 .. Len(s) - 1 |->
            [n \in 1 .. Len(s) - i |-> chunkFrames(SubSeq(s, i + 1, i + n))]]]

Inputs == {<<>>, <<" ">>, <<"h", "i">>}

(* the text area is disabled while isLoading *)
handleInputChange ==
    /\ ~isLoading_chat
    /\ \E value \in Inputs \ {input} : input' = value
    /\ UNCHANGED <<messages, isLoading_chat, pc, body, stream, rest, emitted, fault, turns>>
    /\ UNCHANGED <<notesVars, searchVars>>

(* a variant without the early return *)
returnsEarly_never == FALSE

(* if (input.trim() === '' || isLoading) return *)
returnsEarly == trim(input) = <<>> \/ isLoading_chat

(* a variant that starts the turn without raising the flag *)
setIsLoading_missing == UNCHANGED isLoading_chat

(* setIsLoading(true) *)
setIsLoading_true == isLoading_chat' = TRUE

(* a variant whose request carries the transcript without the new message *)
requestBody_stale(newUserMessage) == messages

(* body: JSON.stringify({messages: [...messages, newUserMessage]}) *)
requestBody(newUserMessage) == Append(messages, newUserMessage)

(* handleSend up to its first await *)
Send ==
    /\ turns < MaxTurns
    /\ IF returnsEarly
       THEN UNCHANGED chatVars
       ELSE LET newUserMessage == [role |-> "user", content |-> input]
            IN  /\ messages' = Append(messages, newUserMessage)
                /\ input' = <<>>
                /\ setIsLoading_true
                /\ body' = requestBody(newUserMessage)
                /\ pc' = "fetch"
                /\ emitted' = <<>>
                /\ turns' = turns + 1
                /\ UNCHANGED <<stream, rest, fault>>
    /\ UNCHANGED <<notesVars, searchVars>>

(* a variant whose exit leaves the flag as it is *)
finally_skipped == isLoading_chat' = isLoading_chat

(* finally { setIsLoading(false) } *)
finally == isLoading_chat' = FALSE

(* catch (error) { setMessages(prev => [...prev, error message]) } finally  *)
(* { setIsLoading(false) }                                                  *)
catch ==
    /\ messages' = Append(messages, [role |-> "assistant", content |-> ErrorText])
    /\ finally
    /\ pc' = "idle"
    /\ body' = <<>>
    /\ stream' = <<>>
    /\ rest' = <<>>
    /\ emitted' = <<>>

(* fetch() rejects *)
FetchRejects ==
    /\ pc = "fetch"
    /\ catch
    /\ UNCHANGED <<input, fault, turns>>
    /\ UNCHANGED <<notesVars, searchVars>>

(* a variant that leaves the transcript alone when the response arrives *)
afterHeaders_unchanged == messages

(* setMessages(prev => [...prev, {role: 'assistant', content: ''}]) *)
afterHeaders == Append(messages, [role |-> "assistant", content |-> <<>>])

(* fetch() resolves: the empty assistant message is appended, then the      *)
(* status is looked at                                                      *)
FetchResolves ==
    /\ pc = "fetch"
    /\ messages' = afterHeaders
    /\ \E ok \in BOOLEAN :
          IF ok
          THEN /\ pc' = "reading"
               /\ \E s \in Streams : stream' = s /\ rest' = s
          ELSE /\ pc' = "errorText"
               /\ UNCHANGED <<stream, rest>>
    /\ UNCHANGED <<input, isLoading_chat, body, emitted, fault, turns>>
    /\ UNCHANGED <<notesVars, searchVars>>

(* await response.text() is over: throw *)
ErrorTextRead ==
    /\ pc = "errorText"
    /\ catch
    /\ UNCHANGED <<input, fault, turns>>
    /\ UNCHANGED <<notesVars, searchVars>>

(* reader.read() gives the next chunk, of any length *)
ReadChunk ==
    /\ pc = "reading"
    /\ rest # <<>>
    /\ \E n \in 1 .. Len(rest) :
          LET frames == readFrames[stream][Len(stream) - Len(rest)][n]
          IN  /\ rest' = SubSeq(rest, n + 1, Len(rest))
              /\ emitted' = emitted \o frames
              /\ messages' = applyFrames(messages, frames)
              /\ fault' = (fault \/ (frames # <<>> /\ messages = <<>>))
    /\ UNCHANGED <<input, isLoading_chat, pc, body, stream, turns>>
    /\ UNCHANGED <<notesVars, searchVars>>

(* reader.read() gives done *)
ReadDone ==
    /\ pc = "reading"
    /\ rest = <<>>
    /\ finally
    /\ pc' = "idle"
    /\ body' = <<>>
    /\ stream' = <<>>
    /\ rest' = <<>>
    /\ emitted' = <<>>
    /\ UNCHANGED <<messages, input, fault, turns>>
    /\ UNCHANGED <<notesVars, searchVars>>

(* reader.read() rejects *)
ReadError ==
    /\ pc = "reading"
    /\ catch
    /\ UNCHANGED <<input, fault, turns>>
    /\ UNCHANGED <<notesVars, searchVars>>

handleClearConversation ==
    /\ messages # <<>>
    /\ messages' = <<>>
    /\ UNCHANGED <<input, isLoading_chat, pc, body, stream, rest, emitted, fault, turns>>
    /\ UNCHANGED <<notesVars, searchVars>>

-----------------------------------------------------------------------------
(* Specifications *)

SearchClosed ==
    /\ query = Empty
    /\ debouncedQuery = Empty
    /\ timer = NoTimer
    /\ quiet = DEBOUNCE_MS
    /\ typed = <<>>
    /\ settledAt = 0
    /\ cache = [q \in Queries |-> NoData]
    /\ searchNet = {}
    /\ late = FALSE
    /\ orphan = FALSE
    /\ doubled = FALSE
    /\ isSearchVisible = FALSE
    /\ mounted = TRUE

ChatIdle ==
    /\ messages = <<>>
    /\ input = <<>>
    /\ isLoading_chat = FALSE
    /\ pc = "idle"
    /\ body = <<>>
    /\ stream = <<>>
    /\ rest = <<>>
    /\ emitted = <<>>
    /\ fault = FALSE
    /\ turns = 0

(* the Sidebar has just mounted: useInfiniteQuery asks for the first page *)
InitNotes ==
    /\ serverCount \in 0 .. MaxNotes
    /\ pages = <<>>
    /\ fetchStatus = "fetching"
    /\ fetchDirection = "none"
    /\ failureCount = 0
    /\ retryWait = FALSE
    /\ isError = FALSE
    /\ network = {[id |-> 1, offset |-> initialPageParam, by |-> "mount"]}
    /\ current = 1
    /\ reqSeq = 1
    /\ suppressed = FALSE
    /\ visible = FALSE
    /\ notify = FALSE
    /\ rose = FALSE
    /\ SearchClosed
    /\ ChatIdle
    /\ attached = {}

NextNotes ==
    \/ Scroll
    \/ IntersectionCallback
    \/ ResponseOk
    \/ ResponseFail
    \/ RetryTimer
    \/ ServerInsert

SpecNotes == InitNotes /\ [][NextNotes]_vars

(* the same list in a session in which the user creates notes; the server   *)
(* starts with a page nearly full or two pages nearly full                  *)
CollectionCounts == {PAGE_SIZE - 1, 2 * PAGE_SIZE - 1}

InitCollection ==
    /\ InitNotes
    /\ serverCount \in CollectionCounts

NextCollection ==
    \/ Scroll
    \/ IntersectionCallback
    \/ ResponseOk
    \/ ResponseFail
    \/ RetryTimer
    \/ createNote

SpecCollection == InitCollection /\ [][NextCollection]_vars

(* the search overlay over a list whose first page is loaded *)
LoadedCounts == {27}

InitSearch ==
    /\ serverCount \in LoadedCounts
    /\ pages = <<queryFn(initialPageParam)>>
    /\ fetchStatus = "idle"
    /\ fetchDirection = "none"
    /\ failureCount = 0
    /\ retryWait = FALSE
    /\ isError = FALSE
    /\ network = {}
    /\ current = 0
    /\ reqSeq = 1
    /\ suppressed = FALSE
    /\ visible = FALSE
    /\ notify = FALSE
    /\ rose = FALSE
    /\ SearchClosed
    /\ ChatIdle
    /\ attached = target

NextSearch ==
    \/ Edit
    \/ toggleSearch
    \/ Tick
    \/ TimerFires
    \/ SearchResponse
    \/ SearchFails
    \/ Unmount

SpecSearch == InitSearch /\ [][NextSearch]_vars

(* the chat panel beside a Sidebar whose first page is loaded *)
InitChat == InitSearch

NextChat ==
    \/ handleInputChange
    \/ Send
    \/ FetchRejects
    \/ FetchResolves
    \/ ErrorTextRead
    \/ ReadChunk
    \/ ReadDone
    \/ ReadError
    \/ handleClearConversation

SpecChat == InitChat /\ [][NextChat]_vars

(* every await of handleSend comes back: fetch settles, response.text()     *)
(* settles, and the reader goes on giving chunks until it is done or fails  *)
Resume ==
    \/ FetchRejects
    \/ FetchResolves
    \/ ErrorTextRead
    \/ ReadChunk
    \/ ReadDone
    \/ ReadError

SpecChatLive == SpecChat /\ WF_vars(Resume)

(* the Sidebar whole: the list under its observer and the search overlay   *)
(* over it, until the Sidebar goes away                                     *)
SidebarCounts == {PAGE_SIZE - 7, PAGE_SIZE + 7, 2 * PAGE_SIZE + 2}

(* the first page is loaded, the overlay is open and a query has just been  *)
(* typed into it: the debounce interval starts                              *)
SearchTyped ==
    /\ query \in Queries \ {Empty}
    /\ debouncedQuery = Empty
    /\ timer = DEBOUNCE_MS
    /\ quiet = 0
    /\ typed = <<query>>
    /\ settledAt = 0
    /\ cache = [q \in Queries |-> NoData]
    /\ searchNet = {}
    /\ late = FALSE
    /\ orphan = FALSE
    /\ doubled = FALSE
    /\ isSearchVisible = TRUE
    /\ mounted = TRUE

InitSidebar ==
    /\ serverCount \in SidebarCounts
    /\ pages = <<queryFn(initialPageParam)>>
    /\ fetchStatus = "idle"
    /\ fetchDirection = "none"
    /\ failureCount = 0
    /\ retryWait = FALSE
    /\ isError = FALSE
    /\ network = {}
    /\ current = 0
    /\ reqSeq = 1
    /\ suppressed = FALSE
    /\ visible = FALSE
    /\ notify = TRUE
    /\ rose = FALSE
    /\ SearchTyped
    /\ ChatIdle
    /\ attached = target

NextSidebar ==
    \/ Scroll
    \/ IntersectionCallback
    \/ ResponseOk
    \/ ResponseFail
    \/ RetryTimer
    \/ toggleSearch
    \/ Tick
    \/ TimerFires
    \/ SearchResponse
    \/ Unmount

SpecSidebar == InitSidebar /\ [][NextSidebar]_vars

(* the frame updater by itself, on every transcript of up to MaxMessages    *)
(* messages                                                                 *)
MaxMessages == 3
MaxFrames == 2
Texts == {<<>>, Hel, Hello}
Message == [role : {"user", "assistant"}, content : Texts]
Transcripts == UNION {[1 .. n -> Message] : n \in 1 .. MaxMessages}

(* setMessages(prev => ...) run for one content frame *)
FrameUpdate ==
    /\ Len(emitted) < MaxFrames
    /\ \E text \in Texts :
          /\ messages' = applyFrame(messages, text)
          /\ emitted' = Append(emitted, text)
    /\ UNCHANGED <<input, isLoading_chat, pc, body, stream, rest, fault, turns>>
    /\ UNCHANGED <<notesVars, searchVars>>

InitFrame ==
    /\ serverCount \in LoadedCounts
    /\ pages = <<queryFn(initialPageParam)>>
    /\ fetchStatus = "idle"
    /\ fetchDirection = "none"
    /\ failureCount = 0
    /\ retryWait = FALSE
    /\ isError = FALSE
    /\ network = {}
    /\ current = 0
    /\ reqSeq = 1
    /\ suppressed = FALSE
    /\ visible = FALSE
    /\ notify = FALSE
    /\ rose = FALSE
    /\ SearchClosed
    /\ attached = target
    /\ messages \in Transcripts
    /\ input = <<>>
    /\ isLoading_chat = FALSE
    /\ pc = "idle"
    /\ body = <<>>
    /\ stream = <<>>
    /\ rest = <<>>
    /\ emitted = <<>>
    /\ fault = FALSE
    /\ turns = 0

NextFrame ==
    \/ FrameUpdate

SpecFrame == InitFrame /\ [][NextFrame]_vars

(* the two getNextPageParam rules by themselves, on every sequence of       *)
(* pages of at most PAGE_SIZE notes each                                    *)
MaxPages == 4
PageLens == {0, 1, PAGE_SIZE - 1, PAGE_SIZE}

(* the page that queryFn gives for pageParam when the server has len notes  *)
(* from there on                                                            *)
pageOf(pageParam, len) ==
    [notes |-> [i \in 1 .. len |-> pageParam + i], nextPage |-> pageParam + PAGE_SIZE]

(* the pages asked for at initialPageParam, PAGE_SIZE, 2 * PAGE_SIZE, ...   *)
PageSequences ==
    UNION {{[k \in 1 .. n |-> pageOf((k - 1) * PAGE_SIZE, lens[k])] :
               lens \in [1 .. n -> PageLens]} : n \in 0 .. MaxPages - 1}

(* one more page is fetched where the rule of part_000 says *)
fetchNextPage_nextPage ==
    /\ pages # <<>>
    /\ Len(pages) < MaxPages
    /\ getNextPageParam(Last(pages)) # NoPage
    /\ \E len \in PageLens :
          pages' = Append(pages, pageOf(getNextPageParam(Last(pages)), len))
    /\ UNCHANGED <<serverCount, fetchStatus, fetchDirection, failureCount, retryWait,
                   isError, network, current, reqSeq, suppressed, visible, notify,
                   rose, attached>>
    /\ UNCHANGED <<searchVars, chatVars>>

(* one more page is fetched where the rule of hooks/useNotes.ts says *)
fetchNextPage_allPages ==
    /\ pages # <<>>
    /\ Len(pages) < MaxPages
    /\ getNextPageParam_allPages(Last(pages).notes, pages) # NoPage
    /\ \E len \in PageLens :
          pages' = Append(pages,
                      pageOf(getNextPageParam_allPages(Last(pages).notes, pages), len))
    /\ UNCHANGED <<serverCount, fetchStatus, fetchDirection, failureCount, retryWait,
                   isError, network, current, reqSeq, suppressed, visible, notify,
                   rose, attached>>
    /\ UNCHANGED <<searchVars, chatVars>>

InitRules ==
    /\ serverCount = MaxPages * PAGE_SIZE
    /\ pages \in PageSequences
    /\ fetchStatus = "idle"
    /\ fetchDirection = "none"
    /\ failureCount = 0
    /\ retryWait = FALSE
    /\ isError = FALSE
    /\ network = {}
    /\ current = 0
    /\ reqSeq = 1
    /\ suppressed = FALSE
    /\ visible = FALSE
    /\ notify = FALSE
    /\ rose = FALSE
    /\ attached = {}
    /\ SearchClosed
    /\ ChatIdle

NextRules ==
    \/ fetchNextPage_nextPage
    \/ fetchNextPage_allPages

SpecRules == InitRules /\ [][NextRules]_vars

-----------------------------------------------------------------------------
(* Claims about the paginated list (SpecNotes) *)

exhausted == pages # <<>> /\ ~hasNextPage
inFlight  == fetchStatus = "fetching"

OffsetsInOrder ==
    /\ \A i \in 1 .. Len(pages) : pages[i].nextPage = i * PAGE_SIZE
    /\ \A r \in network : r.id = current => r.offset = Len(pages) * PAGE_SIZE

OnePagePerAnswer ==
    pages' # pages =>
        /\ Len(pages') = Len(pages) + 1
        /\ SubSeq(pages', 1, Len(pages)) = pages
        /\ current # 0 /\ current' = 0
        /\ \E r \in network : r.id = current /\ r \notin network'

(* C1: however often the observer callback runs while a fetchNextPage is    *)
(* unresolved, data.pages grows by exactly one page per answered fetch: the *)
(* i-th page is the one asked for at offset (i-1)*PAGE_SIZE, so no offset   *)
(* is merged twice and none is skipped.                                     *)
Thm_C1 == [](OffsetsInOrder) /\ [][OnePagePerAnswer]_vars

Wit_C1 ==
    /\ Len(pages) = 2
    /\ isFetchingNextPage
    /\ suppressed

(* C2: the flattened list holds no note id twice, whatever pages the server *)
(* returned.                                                                *)
Cex_C2 ==
    \A i, j \in 1 .. Len(notes) : i # j => notes[i] # notes[j]

(* C3: after a merge, exhausted holds exactly when the last page has fewer  *)
(* than PAGE_SIZE notes; once exhausted, no step sends a request or changes *)
(* the list.                                                                *)
ExhaustedIffShortPage ==
    pages # <<>> => (exhausted <=> Len(Last(pages).notes) < PAGE_SIZE)

ExhaustedIsFinal ==
    exhausted => (reqSeq' = reqSeq /\ network' = network /\ pages' = pages)

Thm_C3 == [](ExhaustedIffShortPage) /\ [][ExhaustedIsFinal]_vars

Wit_C3 ==
    /\ Len(pages) = 2
    /\ Len(pages[1].notes) = PAGE_SIZE
    /\ Len(notes) = 27
    /\ exhausted
    /\ suppressed

(* C4: when a page fetch fails, the query is idle again with data.pages,    *)
(* the next offset and exhausted as before the call, and the next           *)
(* fetchNextPage asks for the same offset again.                            *)
FailureRestores ==
    (inFlight /\ ~inFlight' /\ isError' /\ pages' = pages) =>
        /\ hasNextPage' = hasNextPage
        /\ ~retryWait'
        /\ \A r \in network' : r.id # current'

FailureLeavesPages ==
    (inFlight /\ ~inFlight' /\ isError') => pages' = pages

RetryAtSameOffset ==
    (pages # <<>> /\ isError /\ ~inFlight /\ inFlight') =>
        \E r \in network' : r.id = current' /\ r.offset = Last(pages).nextPage

RetriesBounded ==
    /\ \A r \in network : r.by = "retry" => failureCount \in 1 .. RETRY
    /\ retryWait => failureCount \in 1 .. RETRY
    /\ failureCount <= RETRY + 1
    /\ failureCount = RETRY + 1 => (isError /\ ~inFlight)
    /\ (isError /\ ~inFlight) => (network = {} /\ ~retryWait)

OnlyFetchNextAfterError ==
    (isError /\ ~inFlight /\ reqSeq' # reqSeq) =>
        \E r \in network' \ network : r.by = "fetchNextPage"

OneOutstanding ==
    /\ Cardinality(network) <= 1
    /\ inFlight <=> (network # {} \/ retryWait)
    /\ network # {} => ~retryWait
    /\ \A r \in network : r.id = current

NoSendWhileInFlight ==
    (inFlight /\ reqSeq' # reqSeq) =>
        /\ retryWait
        /\ \E r \in network' : r.by = "retry"

-----------------------------------------------------------------------------
(* Claims about the search overlay (SpecSearch) *)

OnlyEmptySettlesEarly ==
    settledAt \in {0, Len(typed)} \/ typed[settledAt] = Empty

SettleAfterQuiet ==
    (debouncedQuery' # debouncedQuery /\ debouncedQuery' # Empty) =>
        /\ quiet = DEBOUNCE_MS
        /\ query' = query
        /\ debouncedQuery' = query
        /\ debouncedQuery' = Last(typed)

RequestOnlyForSettled ==
    \A q \in searchNet' \ searchNet :
        /\ q # Empty
        /\ q = query /\ q = debouncedQuery' /\ q = Last(typed)
        /\ quiet = DEBOUNCE_MS

Thm_C8 ==
    /\ results # NoData => (results.for = debouncedQuery /\ results = search(debouncedQuery))
    /\ \A k \in Queries : cache[k] # NoData => cache[k].for = k

Wit_C8 ==
    /\ late
    /\ isSearchVisible
    /\ debouncedQuery = <<"a", "p">>
    /\ query = debouncedQuery
    /\ cache[<<"a">>] # NoData
    /\ results # NoData
    /\ displayNotes.list = search(<<"a", "p">>).notes

(* C9 as stated: the search list is displayed exactly when the overlay is   *)
(* visible and the settled query is non-empty.                              *)
Cex_C9 ==
    (displayNotes.from = "search") <=> (isSearchVisible /\ Len(debouncedQuery) > 0)

(* C9 amended: the search list (the results held for the settled query,     *)
(* empty if none) is displayed exactly when the overlay is visible and the  *)
(* raw query is non-empty, else the paginated list; while the raw query is  *)
(* non-empty and the settled query still empty, the displayed list is the   *)
(* empty search list.                                                       *)
Thm_C9 ==
    /\ (isSearchVisible /\ query # Empty) =>
          /\ displayNotes.from = "search"
          /\ displayNotes.list =
                IF cache[debouncedQuery] = NoData THEN <<>>
                ELSE search(debouncedQuery).notes
    /\ ~(isSearchVisible /\ query # Empty) =>
          displayNotes = [from |-> "notes", list |-> FlatMap(pages)]
    /\ (isSearchVisible /\ query # Empty /\ debouncedQuery = Empty) =>
          displayNotes.list = <<>>

Wit_C9 ==
    /\ isSearchVisible
    /\ query = <<"a">>
    /\ debouncedQuery = Empty
    /\ notes # <<>>
    /\ displayNotes = [from |-> "search", list |-> <<>>]

-----------------------------------------------------------------------------
(* Claims about the chat stream (SpecChat) *)

(* C10: however the response body is cut into chunks, once it is read to    *)
(* its end the frames handed to the transcript are, in order, those of the  *)
(* whole body read as one chunk.                                            *)
Cex_C10 ==
    (pc = "reading" /\ rest = <<>>) => emitted = chunkFrames(stream)

(* C11: a content frame replaces the text of the streaming assistant        *)
(* message and never adds to it: while the stream is read the assistant's   *)
(* text is the content of the last frame parsed so far, every other message *)
(* is left as it was, and when the stream ends the transcript stays as the  *)
(* last frame left it and the turn is over ("Hel", "Hello", [DONE] end as   *)
(* "Hello").  The transcript is taken as still holding the turn's message.  *)
TextIsLastFrame ==
    (pc = "reading" /\ emitted # <<>> /\ messages # <<>>) =>
        Last(messages) = [role |-> "assistant", content |-> Last(emitted)]

FrameReplaces ==
    (pc = "reading" /\ pc' = "reading" /\ Len(emitted') > Len(emitted) /\ messages # <<>>) =>
        /\ Len(messages') = Len(messages)
        /\ \A i \in 1 .. Len(messages) - 1 : messages'[i] = messages[i]
        /\ Last(messages') = [role |-> "assistant", content |-> Last(emitted')]

StreamEndCompletes ==
    (pc = "reading" /\ pc' = "idle" /\ Len(messages') = Len(messages)) =>
        /\ rest = <<>>
        /\ messages' = messages
        /\ ~isLoading_chat'

Thm_C11 ==
    [](TextIsLastFrame) /\ [][FrameReplaces /\ StreamEndCompletes]_vars

Wit_C11 ==
    /\ pc = "reading"
    /\ rest = <<>>
    /\ emitted = <<Hel, Hello>>
    /\ messages = << [role |-> "user", content |-> <<"h", "i">>],
                     [role |-> "assistant", content |-> Hello] >>

(* C12: a turn whose transport fails leaves exactly one assistant message,  *)
(* the failure notice written over the in-progress one: the transcript      *)
(* never holds two assistant messages in a row.                             *)
Cex_C12 ==
    \A i \in 1 .. Len(messages) - 1 :
        ~(messages[i].role = "assistant" /\ messages[i + 1].role = "assistant")

(* C13: a line that has the event prefix but does not parse is skipped: it  *)
(* changes nothing and does not end the turn, and each read hands over, in  *)
(* order, the content of every well-formed content line of its chunk,       *)
(* whether such a line comes before or after a malformed one.               *)
wellFormed(line) ==
    startsWith(line, DataPrefix) /\ hasContent(trim(slice(line, Len(DataPrefix))))

malformed(line) ==
    /\ startsWith(line, DataPrefix)
    /\ trim(slice(line, Len(DataPrefix))) # DoneData
    /\ ~hasContent(trim(slice(line, Len(DataPrefix))))

wellFormedContents(value) ==
    LET good == SelectSeq(split(value), wellFormed)
    IN  [k \in 1 .. Len(good) |-> content(trim(slice(good[k], Len(DataPrefix))))]

expectedFrames ==
    [s \in Streams |->
        [i \in 0 .. Len(s) - 1 |->
            [n \in 1 .. Len(s) - i |-> wellFormedContents(SubSeq(s, i + 1, i + n))]]]

MalformedSkipped ==
    (pc = "reading" /\ rest' # rest /\ Len(messages') = Len(messages)) =>
        LET expected == expectedFrames[stream][Len(stream) - Len(rest)][Len(rest) - Len(rest')]
        IN  /\ pc' = "reading"
            /\ isLoading_chat'
            /\ emitted' = emitted \o expected
            /\ messages' = applyFrames(messages, expected)

Thm_C13 ==
    [][MalformedSkipped]_vars

Wit_C13 ==
    /\ pc = "reading"
    /\ rest = <<>>
    /\ \E k \in 1 .. Len(split(stream)) : malformed(split(stream)[k])
    /\ emitted = <<Hel, Hello>>
    /\ Last(messages) = [role |-> "assistant", content |-> Hello]

(* C14: at most one assistant message is still streaming, and no turn is    *)
(* started while one streams: whatever is sent, streamed, failed or         *)
(* cleared, a step changes no message but the last one, a turn under way    *)
(* keeps the loading flag up, and a turn starts only from the idle state    *)
(* with the flag down.                                                      *)
OnlyLastChanges ==
    \A i \in 1 .. Len(messages) - 1 :
        Len(messages') >= i => messages'[i] = messages[i]

StreamingHoldsFlag ==
    pc # "idle" <=> isLoading_chat

NoTurnWhileStreaming ==
    turns' # turns =>
        /\ pc = "idle"
        /\ ~isLoading_chat
        /\ pc' = "fetch"
        /\ isLoading_chat'

Thm_C14 ==
    [](StreamingHoldsFlag) /\ [][OnlyLastChanges /\ NoTurnWhileStreaming]_vars

Wit_C14 ==
    /\ turns = 2
    /\ pc = "reading"
    /\ emitted = <<Hel>>
    /\ Len(messages) = 4
    /\ messages[2] = [role |-> "assistant", content |-> Hello]
    /\ messages[4] = [role |-> "assistant", content |-> Hel]

(* C15: a turn that ends in a transport failure leaves the session idle     *)
(* with the loading flag down, so that send works again and the next turn   *)
(* runs as any other; every exit of a turn lowers the flag; and, every      *)
(* await coming back, a started turn always reaches the idle state.         *)
ExitLowersFlag ==
    (pc # "idle" /\ pc' = "idle") => ~isLoading_chat'

FailureEndsIdle ==
    (pc # "idle" /\ Len(messages') = Len(messages) + 1
        /\ Last(messages') = [role |-> "assistant", content |-> ErrorText]) =>
        /\ pc' = "idle"
        /\ ~isLoading_chat'
        /\ turns' = turns

SendWorksWhenIdle ==
    (pc = "idle" /\ trim(input) # <<>>) => ~returnsEarly

TurnReachesIdle ==
    []<>(pc = "idle" /\ ~isLoading_chat)

-----------------------------------------------------------------------------
(* Claims about the viewport trigger (SpecNotes) *)

(* C16: fetchNextPage is called only when the last rendered note has gone   *)
(* from not visible to visible; while it merely stays visible no further    *)
(* call is made.                                                            *)
Cex_C16 ==
    [][(\E r \in network' \ network : r.by = "fetchNextPage") => rose]_vars

-----------------------------------------------------------------------------
(* Further claims about the search overlay (SpecSearch) *)

(* C17: when the raw query becomes empty the settled query is empty at      *)
(* once: in no state is the raw query empty while the settled query is      *)
(* non-empty and its search enabled.                                        *)
ClearIsInstant ==
    (query' = Empty /\ query # Empty) => (debouncedQuery' = Empty /\ timer' = NoTimer)

Thm_C17 ==
    [](query = Empty => (debouncedQuery = Empty /\ ~enabled)) /\ [][ClearIsInstant]_vars

Wit_C17 ==
    /\ query = Empty
    /\ debouncedQuery = Empty
    /\ quiet = 0
    /\ typed = << <<"a">>, <<"a", "p">>, Empty >>
    /\ settledAt = 3
    /\ cache[<<"a", "p">>] # NoData

(* C18 as stated: once the Sidebar is torn down, a timer that was pending   *)
(* or a response that was in flight changes neither the settled query nor   *)
(* the search results nor any other shared state.                           *)
Cex_C18 ==
    [][~mounted => UNCHANGED <<query, debouncedQuery, cache>>]_vars

(* C18 amended: once the Sidebar is torn down the pending timer never       *)
(* fires and the raw and settled query change no more; a response that was  *)
(* in flight is not dropped: it is still written to the query cache, to     *)
(* the entry of the query that asked for it and to no other.                *)
TimerAbandoned ==
    ~mounted => timer = NoTimer

OrphanGoesToItsEntry ==
    ~mounted =>
        /\ UNCHANGED <<query, debouncedQuery, timer, isSearchVisible>>
        /\ \A k \in Queries :
              cache'[k] # cache[k] => (k \in searchNet /\ cache'[k] = search(k))

Thm_C18 ==
    [](TimerAbandoned) /\ [][OrphanGoesToItsEntry]_vars

Wit_C18 ==
    /\ ~mounted
    /\ orphan
    /\ query = <<"a", "p">>
    /\ debouncedQuery = <<"a">>
    /\ quiet < DEBOUNCE_MS
    /\ cache[<<"a">>] = search(<<"a">>)
    /\ searchNet = {}

-----------------------------------------------------------------------------
(* Further claims about the chat turn (SpecChat) *)

(* C19 amended: a turn goes Idle, AwaitingFirstFrame, Streaming, Complete   *)
(* in that order: the end of the stream and an error both lead from         *)
(* AwaitingFirstFrame or Streaming to Complete, and a new turn starts only  *)
(* from Idle or Complete.  Idle and Complete are the states with the        *)
(* loading flag down, before the first turn and after a turn; a completed   *)
(* transcript changes only by being cleared.  The sentinel line leads       *)
(* nowhere: reading it leaves the phase and the transcript as they were.    *)
phase ==
    IF ~isLoading_chat
    THEN IF turns = 0 THEN "Idle" ELSE "Complete"
    ELSE IF emitted = <<>> THEN "AwaitingFirstFrame" ELSE "Streaming"

Transitions ==
    { <<"Idle", "Idle">>, <<"Idle", "AwaitingFirstFrame">>,
      <<"AwaitingFirstFrame", "AwaitingFirstFrame">>,
      <<"AwaitingFirstFrame", "Streaming">>, <<"AwaitingFirstFrame", "Complete">>,
      <<"Streaming", "Streaming">>, <<"Streaming", "Complete">>,
      <<"Complete", "Complete">>, <<"Complete", "AwaitingFirstFrame">> }

TurnOrder ==
    <<phase, phase'>> \in Transitions

TurnStartsFromRest ==
    turns' # turns => (phase \in {"Idle", "Complete"} /\ phase' = "AwaitingFirstFrame")

EndAndErrorComplete ==
    (pc # "idle" /\ pc' = "idle") => phase' = "Complete"

CompleteIsFinal ==
    (phase = "Complete" /\ phase' = "Complete") => messages' \in {messages, <<>>}

(* the first i characters of stream s hold a whole sentinel line *)
sentinelIn ==
    [s \in Streams |->
        [i \in 0 .. Len(s) |->
            LET lines == split(SubSeq(s, 1, i))
            IN  \E k \in 1 .. Len(lines) - 1 :
                    /\ startsWith(lines[k], DataPrefix)
                    /\ trim(slice(lines[k], Len(DataPrefix))) = DoneData]]

sentinelRead ==
    pc = "reading" /\ sentinelIn[stream][Len(stream) - Len(rest)]

SentinelKeepsPhase ==
    (pc = "reading" /\ pc' = "reading" /\ rest' # rest /\ emitted' = emitted) =>
        (phase' = phase /\ messages' = messages)

-----------------------------------------------------------------------------
(* Claims about the Collection's life (SpecCollection) *)

MergeAppends ==
    (fetchDirection = "forward" /\ pages' # pages) =>
        /\ pages' = Append(pages, Last(pages'))
        /\ Len(notes') >= Len(notes)
        /\ SubSeq(notes', 1, Len(notes)) = notes

RefetchReplaces ==
    (fetchDirection = "none" /\ pages' # pages) =>
        /\ Len(pages') <= Max(1, Len(pages))
        /\ pages'[1] = queryFn(initialPageParam)
        /\ \A i \in 2 .. Len(pages') : pages'[i] = queryFn(pages'[i - 1].nextPage)

-----------------------------------------------------------------------------
(* Further claims about the paginated list (SpecNotes) *)

(* C21: every request for a page is issued at PAGE_SIZE times the number    *)
(* of pages held (0, 20, 40, ...), whatever the number of notes the pages   *)
(* hold, and the page an answer adds is the one read at that offset, so     *)
(* pages come in increasing offset order.                                   *)
RequestAtPageCount ==
    \A r \in network' \ network : r.offset = PAGE_SIZE * Len(pages)

MergedAtPageCount ==
    pages' # pages =>
        /\ Last(pages').nextPage = PAGE_SIZE * Len(pages')
        /\ Last(pages').notes = getAll(PAGE_SIZE * Len(pages), PAGE_SIZE)
        /\ \A i \in 1 .. Len(pages') - 1 : pages'[i].nextPage < Last(pages').nextPage

-----------------------------------------------------------------------------
(* Further claims about the chat stream (SpecChat) *)

(* C22: within one read, the sentinel line ends the handling of the chunk:  *)
(* the frames a read hands over are those of the lines before the chunk's   *)
(* first sentinel line, and no line after it changes the transcript.        *)
isSentinel(line) ==
    startsWith(line, DataPrefix) /\ trim(slice(line, Len(DataPrefix))) = DoneData

RECURSIVE untilSentinel(_)
untilSentinel(lines) ==
    IF lines = <<>> THEN <<>>
    ELSE IF isSentinel(Head(lines)) THEN <<>>
    ELSE <<Head(lines)>> \o untilSentinel(Tail(lines))

framesUntilSentinel ==
    [s \in Streams |->
        [i \in 0 .. Len(s) - 1 |->
            [n \in 1 .. Len(s) - i |->
                linesFrames(untilSentinel(split(SubSeq(s, i + 1, i + n))))]]]

Cex_C22 ==
    [][(pc = "reading" /\ pc' = "reading" /\ rest' # rest) =>
          emitted' = emitted \o
              framesUntilSentinel[stream][Len(stream) - Len(rest)][Len(rest) - Len(rest')]]_vars

AppendedOnHeaders ==
    (pc = "fetch" /\ pc' \in {"reading", "errorText"}) =>
        messages' = Append(messages, [role |-> "assistant", content |-> <<>>])

EmptyUntilFirstFrame ==
    (pc \in {"reading", "errorText"} /\ emitted = <<>> /\ messages # <<>>) =>
        Last(messages) = [role |-> "assistant", content |-> <<>>]

FrameAddsNoMessage ==
    (pc = "reading" /\ pc' = "reading" /\ rest' # rest) => Len(messages') = Len(messages)

-----------------------------------------------------------------------------
(* Claims about the search request (SpecSearch) *)

(* C24: a search request is issued only when a non-empty value becomes the  *)
(* settled query, and for exactly that value; none is ever issued for the   *)
(* empty string, and no value has two requests in flight.                   *)
IssuedForNewSettled ==
    \A q \in searchNet' \ searchNet :
        /\ q = debouncedQuery'
        /\ debouncedQuery' # debouncedQuery
        /\ Len(q) > 0

NoneForEmptyNoneTwice ==
    Empty \notin searchNet /\ ~doubled

Thm_C24 ==
    [](NoneForEmptyNoneTwice) /\ [][IssuedForNewSettled]_vars

Wit_C24 ==
    /\ debouncedQuery = <<"a">>
    /\ query = <<"a">>
    /\ searchNet = {<<"a">>, <<"a", "p">>}
    /\ cache = [q \in Queries |-> NoData]
    /\ timer = NoTimer

-----------------------------------------------------------------------------
(* Claims about the Sidebar's observer (SpecSidebar) *)

OneSensorOnLast ==
    /\ Cardinality(attached) <= 1
    /\ attached = target

(* C25: at most one observer is connected at any time and it observes the   *)
(* last note of the list shown; after a fetch has changed the last note     *)
(* the observer of the previous one is gone, and none is left once the      *)
(* Sidebar is torn down                                                     *)
Thm_C25 ==
    OneSensorOnLast

Wit_C25 ==
    /\ mounted /\ Len(pages) = 2 /\ fetchStatus = "idle"
    /\ displayNotes.from = "notes"
    /\ attached = {notes[Len(notes)]}

(* the list shown is the search results, rendered with a last note *)
SearchShown ==
    /\ mounted
    /\ displayNotes.from = "search"
    /\ lastElementRendered

NoFetchNextUnderSearch ==
    SearchShown => \A r \in network' \ network : r.by # "fetchNextPage"

(* C28: while the search results are the list shown, the observer's         *)
(* callback does not call fetchNextPage on the notes query                  *)
Cex_C28 ==
    [][NoFetchNextUnderSearch]_vars

-----------------------------------------------------------------------------
(* Claims about the frame updater (SpecFrame) *)

OnlyLastAssistantChanges ==
    /\ Len(messages') = Len(messages)
    /\ \A i \in 1 .. Len(messages) :
          /\ messages'[i].role = messages[i].role
          /\ (i < Len(messages) \/ messages[i].role = "user") =>
                 messages'[i] = messages[i]
    /\ messages[Len(messages)].role = "user" => messages' = messages

(* C26: a content frame changes the last message only, and only if that     *)
(* message is the assistant's: the length, every user message and every     *)
(* earlier assistant message stay, and with a user message last the         *)
(* transcript stays as it is                                                *)
Thm_C26 ==
    [][emitted' # emitted => OnlyLastAssistantChanges]_vars

Wit_C26 ==
    /\ emitted = <<Hello>>
    /\ Len(messages) = 3
    /\ messages[1] = [role |-> "assistant", content |-> Hel]
    /\ messages[2] = [role |-> "user", content |-> Hel]
    /\ messages[3] = [role |-> "assistant", content |-> Hello]

-----------------------------------------------------------------------------
(* Claims about a conversation cleared in mid-turn (SpecChat) *)

(* C27: when the conversation is cleared while a turn is streaming, the     *)
(* frames that follow are applied without fault: none of them finds the     *)
(* transcript without the message it writes into                            *)
Cex_C27 ==
    ~fault

-----------------------------------------------------------------------------
(* Claims about send (SpecChat) *)

SendIsNoOp ==
    (trim(input) = <<>> \/ isLoading_chat) => ~ENABLED (Send /\ vars' # vars)

NothingSentWhenGuarded ==
    (trim(input) = <<>> \/ isLoading_chat) =>
        /\ turns' = turns
        /\ pc' = "fetch" => pc = "fetch"
        /\ ~(Len(messages') > Len(messages) /\ messages'[Len(messages')].role = "user")
        /\ isLoading_chat => input' = input

UserMessageThenRequest ==
    turns' # turns =>
        /\ trim(input) # <<>> /\ ~isLoading_chat
        /\ messages' = Append(messages, [role |-> "user", content |-> input])
        /\ body' = Append(messages, [role |-> "user", content |-> input])
        /\ input' = <<>>
        /\ pc = "idle" /\ pc' = "fetch"

(* C29: with the input empty or blank, or with a turn loading, send changes *)
(* nothing: no message, the input as it was, no request; otherwise the      *)
(* user message goes to the end of the transcript and the request, made     *)
(* after that, carries the transcript of that moment and the user message   *)
Thm_C29 ==
    [](SendIsNoOp) /\ [][NothingSentWhenGuarded /\ UserMessageThenRequest]_vars

Wit_C29 ==
    /\ turns = 2
    /\ pc = "fetch"
    /\ Len(body) = 3
    /\ body = messages
    /\ body[3] = [role |-> "user", content |-> <<"h", "i">>]

-----------------------------------------------------------------------------
(* Claims about the two getNextPageParam rules (SpecRules) *)

(* C30: for every sequence of pages of at most PAGE_SIZE notes each, the    *)
(* rule "lastPage.nextPage if the last page is full, else none" and the     *)
(* rule "none if the last page is short, else allPages.length * PAGE_SIZE"  *)
(* give the same next offset and the same verdict on exhaustion             *)
Thm_C30 ==
    pages # <<>> =>
        getNextPageParam(Last(pages)) =
            getNextPageParam_allPages(Last(pages).notes, pages)

Wit_C30 ==
    /\ Len(pages) = 4
    /\ Len(pages[2].notes) = PAGE_SIZE - 1
    /\ Len(pages[3].notes) = PAGE_SIZE
    /\ Len(pages[4].notes) = PAGE_SIZE
    /\ getNextPageParam(Last(pages)) = 4 * PAGE_SIZE

=============================================================================
